---------------------------- MODULE Spec2Model ----------------------------
(***************************************************************************)
(* Model of docs/scripts/fd.f.py (RBF-FD solution of the 2-d wave equation *)
(* on an L-shaped domain with ghost nodes and dopri5 time integration) and *)
(* of docs/scripts/filter.a.py (low-pass filtering demo).                  *)
(*                                                                         *)
(* Conventions.  Python indices are 0-based, the sequences here 1-based:   *)
(* node index k of the script is k+1 here.  Floating point numbers are     *)
(* modelled by exact rationals <<n, d>> (d > 0, lowest terms) together     *)
(* with NaN; the node count N and the integrator's step budget nsteps are  *)
(* scaled down.  Coordinates of points are kept in quarter units (the      *)
(* point (0.5, 0.5) of the script is <<2, 2>>).                            *)
(***************************************************************************)
EXTENDS Integers, Sequences, FiniteSets, TLC

\* ------------------------------------------------------------------------
\* Floating point values: exact rationals and NaN
\* ------------------------------------------------------------------------
NaN == <<0, 0>>

Abs(x) == IF x < 0 THEN -x ELSE x

RECURSIVE GCD(_, _)
GCD(a, b) == IF b = 0 THEN a ELSE GCD(b, a % b)

Norm(n, d) ==
  IF d = 0 THEN NaN
  ELSE LET g == GCD(Abs(n), Abs(d))
           s == IF d < 0 THEN -1 ELSE 1
       IN  <<(s * n) \div g, (s * d) \div g>>

R(n) == <<n, 1>>
Zero == R(0)

IsNaN(x) == x = NaN

RAdd(x, y) ==
  IF IsNaN(x) \/ IsNaN(y) THEN NaN
  ELSE LET g == GCD(x[2], y[2])
       IN  Norm(x[1] * (y[2] \div g) + y[1] * (x[2] \div g), (x[2] \div g) * y[2])

RNeg(x) == IF IsNaN(x) THEN NaN ELSE <<-x[1], x[2]>>

RSub(x, y) == RAdd(x, RNeg(y))

RMul(x, y) ==
  IF IsNaN(x) \/ IsNaN(y) THEN NaN
  ELSE LET g1 == GCD(Abs(x[1]), y[2])
           g2 == GCD(Abs(y[1]), x[2])
           h1 == IF g1 = 0 THEN 1 ELSE g1
           h2 == IF g2 = 0 THEN 1 ELSE g2
       IN  Norm((x[1] \div h1) * (y[1] \div h2), (x[2] \div h2) * (y[2] \div h1))

\* x / y for y # 0
RDiv(x, y) ==
  IF IsNaN(x) \/ IsNaN(y) THEN NaN
  ELSE RMul(x, Norm(y[2], y[1]))

\* the comparison == of two floats: NaN equals nothing, itself included
FEq(x, y) == ~IsNaN(x) /\ ~IsNaN(y) /\ x = y

\* ------------------------------------------------------------------------
\* numpy / scipy.sparse array operations
\* ------------------------------------------------------------------------
\* a sequence given by a function, held as an array
Array(q) == q \o <<>>

RECURSIVE SumSeq(_)
SumSeq(s) == IF s = <<>> THEN Zero ELSE RAdd(Head(s), SumSeq(Tail(s)))

\* np.zeros(n)
zeros(n) == Array([k \in 1..n |-> Zero])

\* a[idx] for an index list idx
Take(a, idx) == Array([k \in 1..Len(idx) |-> a[idx[k]]])

\* M.dot(x) for a matrix M (a sequence of rows) and a vector x
dot(M, x) ==
  Array([i \in 1..Len(M) |-> SumSeq(Array([j \in 1..Len(x) |-> RMul(M[i][j], x[j])]))])

\* M[:,idx]
Cols(M, idx) == Array([i \in 1..Len(M) |-> Take(M[i], idx)])

VSub(x, y) == Array([k \in 1..Len(x) |-> RSub(x[k], y[k])])
VAdd(x, y) == Array([k \in 1..Len(x) |-> RAdd(x[k], y[k])])
VScale(a, x) == Array([k \in 1..Len(x) |-> RMul(a, x[k])])

\* v.reshape((2,-1)) of a flat vector of even length: its two rows
reshape2(v) ==
  LET n == Len(v) \div 2
  IN  <<SubSeq(v, 1, n), SubSeq(v, n + 1, 2 * n)>>

\* np.hstack([a, b])
hstack(a, b) == a \o b

\* the matrix M without row i and column j
Minor(M, i, j) ==
  LET n == Len(M)
      rows == [r \in 1..(n - 1) |-> IF r < i THEN r ELSE r + 1]
      cols == [c \in 1..(n - 1) |-> IF c < j THEN c ELSE c + 1]
  IN  Array([r \in 1..(n - 1) |-> Array([c \in 1..(n - 1) |-> M[rows[r]][cols[c]]])])

RECURSIVE Det(_)
Det(M) ==
  IF Len(M) = 0 THEN R(1)
  ELSE SumSeq(Array([j \in 1..Len(M) |->
         RMul(IF j % 2 = 1 THEN M[1][j] ELSE RNeg(M[1][j]), Det(Minor(M, 1, j)))]))

\* A with column j replaced by the vector b
ReplaceCol(A, j, b) ==
  Array([r \in 1..Len(A) |-> Array([c \in 1..Len(A) |-> IF c = j THEN b[r] ELSE A[r][c]])])

\* scipy.sparse.linalg.spsolve(A, b), a direct solve: the exact solution of
\* A x = b; for an exactly singular A it warns (MatrixRankWarning) and
\* returns a vector filled with NaN, it does not raise
spsolve(A, b) ==
  LET d == Det(A)
  IN  IF d = Zero \/ IsNaN(d)
      THEN Array([k \in 1..Len(b) |-> NaN])
      ELSE Array([k \in 1..Len(b) |-> RDiv(Det(ReplaceCol(A, k, b)), d)])


RLess(x, y) == x[1] * y[2] < y[1] * x[2]

\* ------------------------------------------------------------------------
\* Bounds of the model
\* ------------------------------------------------------------------------
\* total number of nodes requested from menodes (50000 in the script)
N == 3
\* the integrator's step budget (1000 in the script)
nsteps == 3
\* largest magnitude the integrator's working state holds
MaxAbs == 2
\* number of observation points of the filtering demo (100000 in the script)
NObs == 3

\* ------------------------------------------------------------------------
\* fd.f.py: problem setup
\* ------------------------------------------------------------------------
VARIABLES nodes, smpid, interior, boundary, ghost, normals, D, dD, u_bnd,
          v, integrator, soln, ti, plotted, pc,
          arg, out,
          cutoff, u_obs, fsoln, filter_args

fdvars == <<nodes, smpid, interior, boundary, ghost, normals, D, dD, u_bnd,
            v, integrator, soln, ti, plotted>>
probevars == <<arg, out>>
filtervars == <<cutoff, u_obs, fsoln, filter_args>>
vars == <<fdvars, pc, probevars, filtervars>>

vert == << <<0, 0>>, <<2, 0>>, <<2, 1>>, <<1, 1>>, <<1, 2>>, <<0, 2>> >>
smp == << <<0, 1>>, <<1, 2>>, <<2, 3>>, <<3, 4>>, <<4, 5>>, <<5, 0>> >>

\* np.linspace(0.0,2.0,5): 0, 1/2, 1, 3/2, 2
times == [k \in 1..5 |-> Norm(2 * (k - 1), 4)]

Sign(x) == IF x > 0 THEN 1 ELSE IF x < 0 THEN -1 ELSE 0
Between(x, a, b) == (a <= x /\ x <= b) \/ (b <= x /\ x <= a)

\* the two end points of boundary segment e (0-based), in quarter units
SegA(e) == LET p == vert[smp[e + 1][1] + 1] IN <<4 * p[1], 4 * p[2]>>
SegB(e) == LET p == vert[smp[e + 1][2] + 1] IN <<4 * p[1], 4 * p[2]>>

OnSegment(p, e) ==
  LET a == SegA(e)
      b == SegB(e)
  IN  \/ a[1] = b[1] /\ p[1] = a[1] /\ Between(p[2], a[2], b[2])
      \/ a[2] = b[2] /\ p[2] = a[2] /\ Between(p[1], a[1], b[1])

\* the id menodes gives a point: the boundary segment it lies on, -1 inside
SmpIdOf(p) ==
  IF \E e \in 0..(Len(smp) - 1) : OnSegment(p, e)
  THEN CHOOSE e \in 0..(Len(smp) - 1) :
         OnSegment(p, e) /\ \A e2 \in 0..(e - 1) : ~OnSegment(p, e2)
  ELSE -1

\* points of the domain menodes may return, in quarter units
Pool == {<<2, 2>>, <<3, 2>>, <<2, 0>>, <<0, 2>>}

Phys(p) == [pt |-> p, off |-> <<0, 0>>]

\* rbf.nodes.menodes(N,vert,smp): N distinct points of the domain and, for
\* each, the id of the boundary segment it lies on or -1; a closed domain
\* has at least one node on its boundary
menodes(n) ==
  {[nodes |-> [k \in 1..n |-> Phys(s[k])], smpid |-> [k \in 1..n |-> SmpIdOf(s[k])]] :
     s \in {q \in [1..n -> Pool] :
              /\ \A i, j \in 1..n : i # j => q[i] # q[j]
              /\ \E i \in 1..n : SmpIdOf(q[i]) >= 0}}

\* rbf.geometry.simplex_outward_normals(vert,smp): the unit outward normal
\* of every segment of the counter-clockwise polygon
simplex_outward_normals ==
  [k \in 1..Len(smp) |->
     LET a == SegA(k - 1)
         b == SegB(k - 1)
     IN  <<Sign(b[2] - a[2]), -Sign(b[1] - a[1])>>]

\* np.nonzero(mask)[0].tolist() for a boolean array: the indices of its true
\* entries, ascending
nonzero(mask) == SelectSeq([k \in 1..Len(mask) |-> k], LAMBDA k : mask[k])

\* the ghost node of boundary node p: p + 0.5*dx*normal, kept symbolic
GhostOf(p, nrm) == [pt |-> p.pt, off |-> nrm]

\* rbf.fd.weight_matrix(x,p,diffs,coeffs,n): one row per target point x[i],
\* one column per node p[j].  The stencil size n = 30 exceeds the number of
\* nodes of the model, so every node is in every stencil.  The weights are
\* w[1] on the target itself, w[2] on the target's own ghost node, w[3] on
\* any other physical node and w[4] on any other ghost node.
weight_matrix(x, p, w) ==
  Array([i \in 1..Len(x) |-> Array([j \in 1..Len(p) |->
     R(IF p[j] = x[i] THEN w[1]
       ELSE IF p[j].pt = x[i].pt THEN w[2]
       ELSE IF p[j].off = <<0, 0>> THEN w[3]
       ELSE w[4])])])

\* weights the Laplacian stencils may have
DKernels == {<<-2, 1, 1, 0>>, <<-3, 2, 1, 1>>}
\* weights the normal-derivative stencils may have; with <<-1, 1, 0, 1>> and
\* with <<0, 0, 1, 0>> the ghost columns form a singular matrix
dDKernels == {<<-2, 2, 0, 0>>, <<-4, 2, 1, 1>>, <<-1, 1, 0, 1>>, <<0, 0, 1, 0>>}

\* 1.0/(1 + (r/0.05)**4) with r the distance of p from (0.5,0.5)
u_init_at(p) ==
  LET q == (p.pt[1] - 2) * (p.pt[1] - 2) + (p.pt[2] - 2) * (p.pt[2] - 2)
  IN  Norm(1, 1 + 625 * q * q)

\* line 22: np.nonzero(smpid==-1)[0].tolist()
interior_of(sid) == nonzero([k \in 1..Len(sid) |-> sid[k] = -1])

boundary_of_strict(sid) == nonzero([k \in 1..Len(sid) |-> sid[k] > 0])

\* line 23: np.nonzero(smpid>=0)[0].tolist()
boundary_of(sid) == nonzero([k \in 1..Len(sid) |-> sid[k] >= 0])

\* line 30: range(N,N+len(boundary)), 1-based
ghost_range(nb) == [k \in 1..nb |-> N + k]

\* line 39: np.zeros(len(boundary))
u_bnd_of(nb) == zeros(nb)

v_init_long(u0) == hstack(u0, zeros(N + 1))

\* lines 38 and 41: v = np.hstack([u_init,dudt_init]), dudt_init = np.zeros(N)
v_init(u0) == hstack(u0, zeros(N))

\* lines 21-41 and 60-62: the state of the script when the loop starts
Setup(mo, kD, kdD) ==
  LET sid == mo.smpid
      int == interior_of(sid)
      bnd == boundary_of(sid)
      nrm == [k \in 1..Len(bnd) |-> simplex_outward_normals[sid[bnd[k]] + 1]]
      nds == mo.nodes \o [k \in 1..Len(bnd) |-> GhostOf(mo.nodes[bnd[k]], nrm[k])]
      gh  == ghost_range(Len(bnd))
      ib  == int \o bnd
      u0  == [k \in 1..Len(ib) |-> u_init_at(nds[ib[k]])]
      v0  == v_init(u0)
  IN  [nodes |-> nds, smpid |-> sid, interior |-> int, boundary |-> bnd,
       ghost |-> gh, normals |-> nrm,
       D |-> weight_matrix(Take(nds, ib), nds, kD),
       dD |-> weight_matrix(Take(nds, bnd), nds, kdD),
       u_bnd |-> u_bnd_of(Len(bnd)),
       v |-> v0,
       integrator |-> [y |-> v0, t |-> times[1], istate |-> 1, success |-> 1,
                       nstep |-> 0, h |-> Zero, tend |-> times[1]],
       soln |-> <<>>]

Configs == {Setup(mo, kD, kdD) : mo \in menodes(N), kD \in DKernels, kdD \in dDKernels}

SetupVars(c) ==
  /\ nodes = c.nodes /\ smpid = c.smpid /\ interior = c.interior
  /\ boundary = c.boundary /\ ghost = c.ghost /\ normals = c.normals
  /\ D = c.D /\ dD = c.dD /\ u_bnd = c.u_bnd /\ v = c.v
  /\ integrator = c.integrator /\ soln = c.soln
  /\ ti = 1 /\ plotted = 0

\* ------------------------------------------------------------------------
\* fd.f.py: the time derivative of the state vector
\* ------------------------------------------------------------------------
\* an entry of np.empty(...) that was never written
Garbage == <<1, 0>>

\* a[idx] = vals
Put(a, idx, vals) ==
  Array([k \in 1..Len(a) |->
     IF \E m \in 1..Len(idx) : idx[m] = k
     THEN vals[CHOOSE m \in 1..Len(idx) :
                 idx[m] = k /\ \A m2 \in (m + 1)..Len(idx) : idx[m2] # k]
     ELSE a[k]])

f_u_plus(v_) ==
  LET vv == reshape2(v_)
      ib == interior \o boundary
      u0 == Array([k \in 1..Len(nodes) |-> Garbage])
      u1 == Put(u0, ib, vv[1])
      g  == spsolve(Cols(dD, ghost), VAdd(u_bnd, dot(Cols(dD, ib), vv[1])))
  IN  Put(u1, ghost, g)

\* the array u of f when D is applied to it (lines 49-55)
f_u(v_) ==
  LET vv == reshape2(v_)
      ib == interior \o boundary
      u0 == Array([k \in 1..Len(nodes) |-> Garbage])
      u1 == Put(u0, ib, vv[1])
      g  == spsolve(Cols(dD, ghost), VSub(u_bnd, dot(Cols(dD, ib), vv[1])))
  IN  Put(u1, ghost, g)

f_swapped(t, v_) == hstack(reshape2(v_)[1], dot(D, f_u(v_)))

\* f(t,v) (lines 43-57)
f(t, v_) == hstack(reshape2(v_)[2], dot(D, f_u(v_)))


\* ------------------------------------------------------------------------
\* fd.f.py: time integration (lines 59-66) and plotting (lines 68-91)
\* ------------------------------------------------------------------------
\* the integrator keeps its working state on a bounded grid: every entry is
\* rounded to the nearest integer and clipped to -MaxAbs..MaxAbs
Quantize(x) ==
  LET r == (2 * x[1] + x[2]) \div (2 * x[2])
  IN  R(IF r > MaxAbs THEN MaxAbs ELSE IF r < -MaxAbs THEN -MaxAbs ELSE r)

HasNaN(x) == \E k \in 1..Len(x) : IsNaN(x[k])

RMin(x, y) == IF RLess(y, x) THEN y ELSE x

\* one accepted step of the explicit Runge-Kutta scheme from y over dt with
\* slope k = f(t,y)
rk_step(y, dt, k) == Array([j \in 1..Len(y) |-> Quantize(RAdd(y[j], RMul(dt, k[j])))])

\* the step sizes the step-size control may settle on for one call of
\* integrate: the whole interval, half of it, or too small for the budget
StepSizes(rem) == {rem, RMul(rem, Norm(1, 2)), RMul(rem, Norm(1, nsteps + 2))}

\* line 63/65: integrator.integrate(t) is entered for the next output time
IntegrateCall ==
  /\ pc = "loop" /\ ti < Len(times)
  /\ \E h \in StepSizes(RSub(times[ti + 1], integrator.t)) :
       integrator' = [integrator EXCEPT !.tend = times[ti + 1], !.nstep = 0, !.h = h]
  /\ pc' = "integrating"
  /\ UNCHANGED <<nodes, smpid, interior, boundary, ghost, normals, D, dD, u_bnd,
                 v, soln, ti, plotted, probevars, filtervars>>

StepGuard ==
  /\ pc = "integrating"
  /\ RLess(integrator.t, integrator.tend)
  /\ integrator.nstep <= nsteps

StepAccept_inplace ==
  /\ StepGuard
  /\ LET k  == f(integrator.t, integrator.y)
         dt == RMin(integrator.h, RSub(integrator.tend, integrator.t))
     IN  /\ ~HasNaN(k)
         /\ integrator' = [integrator EXCEPT !.y = rk_step(integrator.y, dt, k),
                                             !.t = RAdd(integrator.t, dt),
                                             !.nstep = integrator.nstep + 1]
         /\ u_bnd' = VSub(u_bnd, Take(k, [j \in 1..Len(u_bnd) |-> N + j]))
  /\ UNCHANGED <<nodes, smpid, interior, boundary, ghost, normals, D, dD,
                 v, soln, ti, plotted, pc, probevars, filtervars>>

\* dopri5 evaluates f and accepts the step: the state advances by the step
\* size, clipped to the end of the interval
StepAccept ==
  /\ StepGuard
  /\ LET k  == f(integrator.t, integrator.y)
         dt == RMin(integrator.h, RSub(integrator.tend, integrator.t))
     IN  /\ ~HasNaN(k)
         /\ integrator' = [integrator EXCEPT !.y = rk_step(integrator.y, dt, k),
                                             !.t = RAdd(integrator.t, dt),
                                             !.nstep = integrator.nstep + 1]
  /\ UNCHANGED <<nodes, smpid, interior, boundary, ghost, normals, D, dD, u_bnd,
                 v, soln, ti, plotted, pc, probevars, filtervars>>

\* dopri5 evaluates f, the error estimate is NaN and the step is rejected:
\* only the step counter advances
StepReject ==
  /\ StepGuard
  /\ HasNaN(f(integrator.t, integrator.y))
  /\ integrator' = [integrator EXCEPT !.nstep = integrator.nstep + 1]
  /\ UNCHANGED <<nodes, smpid, interior, boundary, ghost, normals, D, dD, u_bnd,
                 v, soln, ti, plotted, pc, probevars, filtervars>>

\* integrate(t) returns with the output time reached
IntegrateDone ==
  /\ pc = "integrating"
  /\ integrator.t = integrator.tend
  /\ integrator' = [integrator EXCEPT !.istate = 1]
  /\ pc' = "save"
  /\ UNCHANGED <<nodes, smpid, interior, boundary, ghost, normals, D, dD, u_bnd,
                 v, soln, ti, plotted, probevars, filtervars>>

\* integrate(t) runs out of steps before the output time: scipy warns
\* ("larger nsteps is needed"), clears its success flag and returns the
\* state reached so far; it does not raise
IntegrateFail ==
  /\ pc = "integrating"
  /\ RLess(integrator.t, integrator.tend)
  /\ integrator.nstep > nsteps
  /\ integrator' = [integrator EXCEPT !.istate = -2, !.success = 0]
  /\ pc' = "save"
  /\ UNCHANGED <<nodes, smpid, interior, boundary, ghost, normals, D, dD, u_bnd,
                 v, soln, ti, plotted, probevars, filtervars>>

\* lines 65-66: v = (the returned state).reshape((2,-1)); soln += [v[0]]
Save ==
  /\ pc = "save"
  /\ v' = reshape2(integrator.y)
  /\ soln' = Append(soln, v'[1])
  /\ ti' = ti + 1
  /\ pc' = "loop"
  /\ UNCHANGED <<nodes, smpid, interior, boundary, ghost, normals, D, dD, u_bnd,
                 integrator, plotted, probevars, filtervars>>

\* lines 69-91: one panel is drawn for each output time after the first
Plot ==
  /\ pc = "loop" /\ ti = Len(times)
  /\ plotted' = Len(times) - 1
  /\ pc' = "done"
  /\ UNCHANGED <<nodes, smpid, interior, boundary, ghost, normals, D, dD, u_bnd,
                 v, integrator, soln, ti, probevars, filtervars>>

\* ------------------------------------------------------------------------
\* f applied to sample state vectors
\* ------------------------------------------------------------------------
Unused == "unused"

FilterIdle == cutoff = Unused /\ u_obs = Unused /\ fsoln = Unused /\ filter_args = Unused

\* state vectors of the valid length 2*N: the zero vector, the unit vectors
\* and a ramp
StateSamples ==
  {[k \in 1..(2 * N) |-> Zero]} \cup
  {[k \in 1..(2 * N) |-> IF k = j THEN R(1) ELSE Zero] : j \in 1..(2 * N)} \cup
  {[k \in 1..(2 * N) |-> R(k - N)]}

ScalarSamples == {<<R(2), R(-1)>>, <<Norm(-3, 2), R(2)>>}

Init ==
  /\ \E c \in Configs : SetupVars(c)
  /\ pc = "loop"
  /\ arg = Unused /\ out = Unused
  /\ FilterIdle

Next ==
  \/ IntegrateCall
  \/ StepAccept
  \/ StepReject
  \/ IntegrateDone
  \/ IntegrateFail
  \/ Save
  \/ Plot

Spec == Init /\ [][Next]_vars

InitF ==
  /\ \E c \in Configs : SetupVars(c)
  /\ pc = "call"
  /\ arg \in [ab : ScalarSamples, v1 : StateSamples, v2 : StateSamples]
  /\ out = Unused
  /\ FilterIdle

\* f is called on v1, on v2 and on a*v1 + b*v2
CallF ==
  /\ pc = "call"
  /\ LET w == VAdd(VScale(arg.ab[1], arg.v1), VScale(arg.ab[2], arg.v2))
     IN  out' = [r1 |-> f(Zero, arg.v1), r2 |-> f(Zero, arg.v2), r12 |-> f(Zero, w),
                 u1 |-> f_u(arg.v1), w |-> w]
  /\ pc' = "returned"
  /\ UNCHANGED <<fdvars, arg, filtervars>>

NextF == CallF

SpecF == InitF /\ [][NextF]_vars


\* ------------------------------------------------------------------------
\* filter.a.py
\* ------------------------------------------------------------------------
\* line 31: cutoff = 60.0
cutoff_value == 60
\* line 32: n=20
filter_n == 20
\* line 32: samples=0
filter_samples == 0

\* values an observation or a filtered value may take
ObsValues == {R(0), R(1), Norm(1, 2)}

fdIdle ==
  /\ nodes = Unused /\ smpid = Unused /\ interior = Unused /\ boundary = Unused
  /\ ghost = Unused /\ normals = Unused /\ D = Unused /\ dD = Unused
  /\ u_bnd = Unused /\ v = Unused /\ integrator = Unused /\ soln = Unused
  /\ ti = 0 /\ plotted = 0

\* lines 17-29: the noisy observations u_obs at the points points_obs
InitFilter ==
  /\ fdIdle
  /\ arg = Unused /\ out = Unused
  /\ u_obs \in [1..NObs -> ObsValues]
  /\ cutoff = Unused /\ fsoln = Unused /\ filter_args = Unused
  /\ pc = "observed"

\* line 31
SetCutoff ==
  /\ pc = "observed"
  /\ cutoff' = R(cutoff_value)
  /\ pc' = "cutoff_set"
  /\ UNCHANGED <<fdvars, probevars, u_obs, fsoln, filter_args>>

\* rbf.filter.filter(points_obs,u_obs,cutoff=cutoff,n=20,samples=0): one
\* smoothed value for every observation
filter(u, c, n, samples) == [1..Len(u) -> ObsValues]

\* line 32: soln,_ = filter(points_obs,u_obs,cutoff=cutoff,n=20,samples=0)
CallFilter ==
  /\ pc = "cutoff_set"
  /\ filter_args' = [cutoff |-> cutoff, n |-> filter_n, samples |-> filter_samples]
  /\ fsoln' \in filter(u_obs, cutoff, filter_n, filter_samples)
  /\ pc' = "filtered"
  /\ UNCHANGED <<fdvars, probevars, u_obs, cutoff>>

\* lines 35-54: the observed and the filtered values are plotted, the title
\* showing the cutoff
PlotFilter ==
  /\ pc = "filtered"
  /\ pc' = "filter_done"
  /\ UNCHANGED <<fdvars, probevars, filtervars>>

NextFilter == SetCutoff \/ CallFilter \/ PlotFilter

SpecFilter == InitFilter /\ [][NextFilter]_vars

\* ------------------------------------------------------------------------
\* Properties of f
\* ------------------------------------------------------------------------
NB == Len(boundary)
GhostSystem == Cols(dD, ghost)
NonSingular == Det(GhostSystem) # Zero
AllZero(x) == \A k \in 1..Len(x) : x[k] = Zero
SeqSet(q) == {q[k] : k \in 1..Len(q)}

\* C1: when the ghost system dD[:,ghost] is non-singular, the array u that f
\* assembles satisfies the boundary condition: dD.dot(u) - u_bnd is zero at
\* every boundary node.
C1_BoundaryResidualZero ==
  (pc = "returned" /\ NonSingular) =>
     AllZero(VSub(dot(dD, out.u1), u_bnd))

\* C1 witness: f has returned for a non-zero state on a non-singular system
\* with two coupled boundary nodes, and a solved ghost value is not an
\* integer.
C1_Witness ==
  /\ pc = "returned" /\ NonSingular /\ NB = 2
  /\ ~AllZero(arg.v1)
  /\ \E k \in 1..NB : out.u1[ghost[k]][2] > 1
  /\ GhostSystem[1][2] # Zero

\* C2: f is linear in the state vector, f(t, a*v1 + b*v2) = a*f(t,v1) +
\* b*f(t,v2), and the all-zero state gives the all-zero derivative.
C2_Linear ==
  pc = "returned" =>
     /\ \A k \in 1..Len(out.r12) :
          FEq(out.r12[k],
              RAdd(RMul(arg.ab[1], out.r1[k]), RMul(arg.ab[2], out.r2[k])))
     /\ (AllZero(arg.v1) => AllZero(out.r1))

\* C3: the derivative f returns has the length of the input state vector;
\* its first half is the velocity half of the input, its second half D
\* applied to the displacement array, one entry per interior+boundary node.
C3_Shape ==
  pc = "returned" =>
     /\ Len(out.r1) = Len(arg.v1)
     /\ Len(out.r12) = Len(out.w)
     /\ SubSeq(out.r1, 1, N) = SubSeq(arg.v1, N + 1, 2 * N)
     /\ SubSeq(out.r1, N + 1, Len(out.r1)) = dot(D, out.u1)
     /\ Len(out.r1) - N = Len(interior) + Len(boundary)

\* C3 witness: f has returned for a state whose two halves differ.
C3_Witness ==
  /\ pc = "returned"
  /\ SubSeq(arg.v1, 1, N) # SubSeq(arg.v1, N + 1, 2 * N)
  /\ ~AllZero(SubSeq(arg.v1, N + 1, 2 * N))

\* C7: with a singular ghost system f does not return; in particular no
\* derivative f returns holds a NaN.
C7_NoNaNReturned ==
  pc = "returned" => \A k \in 1..Len(out.r1) : ~IsNaN(out.r1[k])

\* C10: interior, boundary and ghost are pairwise disjoint and together the
\* index set of the node array with the ghost nodes appended, so that every
\* entry of u is written before D is applied to it.
C10_IndexPartition ==
  /\ SeqSet(interior) \cap SeqSet(boundary) = {}
  /\ SeqSet(interior) \cap SeqSet(ghost) = {}
  /\ SeqSet(boundary) \cap SeqSet(ghost) = {}
  /\ SeqSet(interior) \cup SeqSet(boundary) \cup SeqSet(ghost) = 1..(N + NB)
  /\ DOMAIN nodes = 1..(N + NB)
  /\ (pc = "returned" =>
        /\ Len(out.u1) = Len(nodes)
        /\ \A k \in 1..Len(out.u1) : out.u1[k] # Garbage)

\* C10 witness: f has returned with nodes of all three kinds present, a
\* boundary node preceding an interior one in the node array.
C10_Witness ==
  /\ pc = "returned"
  /\ Len(interior) >= 1 /\ NB >= 2
  /\ boundary[1] < interior[Len(interior)]


\* ------------------------------------------------------------------------
\* Properties of the integration run
\* ------------------------------------------------------------------------
NPhys == Len(interior) + Len(boundary)

\* C4: from the construction of the initial state vector through every
\* checkpoint of the loop the state vector has length 2 * (number of interior
\* nodes + number of boundary nodes): two halves of equal length and no
\* entry for a ghost node.
C4_StateLength ==
  /\ Len(integrator.y) = 2 * NPhys
  /\ Len(reshape2(integrator.y)[1]) = Len(reshape2(integrator.y)[2])
  /\ Len(reshape2(integrator.y)[1]) = Len(nodes) - Len(ghost)
  /\ (ti = 1 => Len(v) = 2 * NPhys)
  /\ (ti > 1 => Len(v) = 2 /\ Len(v[1]) = NPhys /\ Len(v[2]) = NPhys)

\* C4 witness: the loop has ended for a domain with two boundary nodes and
\* the state has moved between the first and the last checkpoint.
C4_Witness ==
  /\ pc = "done" /\ NB = 2
  /\ Len(soln) = Len(times) - 1
  /\ soln[1] # soln[Len(soln)]

\* C5: the state is advanced from each output time to the next in increasing
\* order; soln ends with len(times) - 1 entries, the i-th one the
\* displacement half of the state reached at times[i+1].
C5_Checkpoints ==
  /\ Len(soln) = ti - 1
  /\ (pc = "integrating" =>
        integrator.tend = times[ti + 1] /\ RLess(times[ti], times[ti + 1]))
  /\ ((pc = "loop" /\ ti > 1) =>
        /\ soln[ti - 1] = SubSeq(integrator.y, 1, NPhys)
        /\ integrator.t = times[ti])
  /\ (pc = "done" => Len(soln) = Len(times) - 1)

\* C6: once the integrator has failed to reach an output time within its
\* step budget the run is over: nothing is appended to soln, no later
\* output time is integrated, nothing is plotted.
C6_FailureAborts ==
  [][integrator.success = 0 => UNCHANGED <<soln, integrator, plotted, ti>>]_vars

\* C8: the node array, the index sets, D, dD and u_bnd never change once
\* built; the state vector is changed by the integrator only, while a call
\* of integrate is running.
C8_OperatorsReadOnly ==
  [][/\ UNCHANGED <<nodes, smpid, interior, boundary, ghost, normals, D, dD, u_bnd>>
     /\ (integrator.y' # integrator.y => pc = "integrating" /\ pc' = "integrating")]_vars

\* C8 witness: the run is over and the integrator has changed the state
\* vector on the way.
C8_Witness ==
  /\ pc = "done"
  /\ integrator.success = 1
  /\ SubSeq(integrator.y, 1, NPhys) # soln[1]
  /\ HasNaN(integrator.y) = FALSE
  /\ u_bnd = zeros(NB)

\* C9: the cutoff frequency passed to rbf.filter.filter is 40.
C9_CutoffIs40 ==
  pc \in {"filtered", "filter_done"} => filter_args.cutoff = R(40)

=============================================================================
